---- MODULE Spec2Model ----
(***************************************************************************)
(* Model of the Research Assistant service: the request schemas            *)
(* (app/models/schemas.py, plans/full_code.py ResearchRequest), the        *)
(* LangGraph workflow of ResearchAssistant (planner -> researcher ->       *)
(* tools -> synthesizer) and the two FastAPI research endpoints.           *)
(*                                                                         *)
(* Python values are encoded as follows:                                   *)
(*   - an Optional[int] is a sequence: <<>> is None, <<n>> is the int n;   *)
(*   - a query string is represented by its length;                        *)
(*   - a conversation message is a record [type, content, tool_calls];     *)
(*   - an HTTP response is [status, detail, result] where status 0 means   *)
(*     that no response has been produced yet and result is <<>> or a      *)
(*     one-element sequence holding the ResearchResponse fields.           *)
(***************************************************************************)
EXTENDS Integers, Sequences, FiniteSets, TLC

VARIABLES
    research_agent,  \* the global orchestrator singleton: "None" or "agent"
    pc,              \* pc[r]: position of request r in the HTTP layer / graph
    request,         \* request[r]: endpoint, X-API-Key header and JSON body
    state,           \* state[r]: the ResearchState of the run of request r
    trace,           \* trace[r]: the graph nodes executed so far by the run
    error,           \* error[r]: the exception propagating out of the run
    invoked,         \* invoked[r]: research_agent.research(...) was called
    response,        \* response[r]: the HTTP status line and JSON body
    events,          \* events[r]: the server-sent events emitted so far
    calls,           \* calls[r]: outcomes of the run's model and tool calls
    tool_call        \* a ToolCallResult(...) construction: arguments and outcome

vars == <<research_agent, pc, request, state, trace, error, invoked, response, events,
          calls, tool_call>>

----------------------------------------------------------------------------
(* Bounds of the model *)

\* longest node sequence of one graph run that is explored
MaxSteps == 9

\* request slots of the model
Runs == {1, 2}

\* the slots that carry a request under Spec (requests handled one by one)
SeqRuns == {1}

\* longest node sequence of a run explored with two requests in flight
ConcSteps == 4

----------------------------------------------------------------------------
(* Program constants *)

MinQueryLen == 5
MaxQueryLen == 1000
MinIterations == 1
MaxIterations == 10
DefaultIterations == 3

None == <<>>
Some(n) == <<n>>
IsNone(v) == v = <<>>
Val(v) == v[1]

----------------------------------------------------------------------------
(* Inputs *)

\* lengths of the query string around both length bounds
QueryLens == {MinQueryLen - 1, MinQueryLen, MaxQueryLen, MaxQueryLen + 1}

\* max_iterations values of a JSON body: null, or an integer around the bounds
IterationValues ==
    {None} \cup {Some(n) : n \in {MinIterations - 1, MinIterations, 2,
                                  MaxIterations, MaxIterations + 1}}

\* X-API-Key header: absent, different from the service key, equal to it
ApiKeyHeaders == {"missing", "wrong-key", "your-secret-key"}

Endpoints == {"/research", "/research/stream"}

\* a JSON body {query, max_iterations?}: has_max is FALSE when the key is omitted
Bodies ==
    {[qlen |-> l, has_max |-> h, max_iterations |-> m] :
        l \in QueryLens, h \in BOOLEAN, m \in IterationValues}

Requests ==
    {[endpoint |-> e, x_api_key |-> k, body |-> b] :
        e \in Endpoints, k \in ApiKeyHeaders,
        b \in {c \in Bodies : c.has_max \/ IsNone(c.max_iterations)}}

NoRequest ==
    [endpoint |-> "", x_api_key |-> "missing",
     body |-> [qlen |-> 0, has_max |-> FALSE, max_iterations |-> None]]

----------------------------------------------------------------------------
(* Schemas *)

\* Field(3, ge=1, le=10) on Optional[int]: the default fills an omitted key,
\* None is a member of Optional[int], the bounds constrain the int branch.
OptionalIterationsOk(b) ==
    \/ ~b.has_max
    \/ IsNone(b.max_iterations)
    \/ /\ Val(b.max_iterations) >= MinIterations
       /\ Val(b.max_iterations) <= MaxIterations

AgentInput(b) ==
    /\ b.qlen >= MinQueryLen
    /\ b.qlen <= MaxQueryLen
    /\ OptionalIterationsOk(b)

ResearchTaskRequest(b) ==
    /\ b.qlen >= MinQueryLen
    /\ b.qlen <= MaxQueryLen
    /\ OptionalIterationsOk(b)

\* the body model of both research endpoints: min_length only
ResearchRequest(b) ==
    /\ b.qlen >= MinQueryLen
    /\ OptionalIterationsOk(b)

\* request.max_iterations of a validated body
ParsedMaxIterations(b) ==
    IF b.has_max THEN b.max_iterations ELSE Some(DefaultIterations)

----------------------------------------------------------------------------
(* Messages, model and tools *)

HumanMessage(c) == [type |-> "human", content |-> c, tool_calls |-> <<>>]
AIMessage(c, requested) == [type |-> "ai", content |-> c, tool_calls |-> requested]
ToolMessage(c) == [type |-> "tool", content |-> c, tool_calls |-> <<>>]

ToolNames == {"web_search", "fetch_webpage", "summarize_findings"}

\* what self.llm.invoke can return: a text answer or a request for one tool
LLMResponses ==
    {AIMessage("text", <<>>)} \cup {AIMessage("", <<t>>) : t \in ToolNames}

\* outcome of the external collaborator behind a tool call (self.search.run,
\* loader.load): it returns or it raises; summarize_findings calls none
Outcomes == {"ok", "exception"}

ToolOutcomes(name) == IF name = "summarize_findings" THEN {"ok"} ELSE Outcomes

\* what the log of calls keeps of a model response
LLMOutcome(resp) == IF Len(resp.tool_calls) > 0 THEN "llm: tool" ELSE "llm: text"

\* a Python call result: a returned value, or an exception leaving the callee
Return(v) == [raised |-> FALSE, value |-> v]
Raise(e) == [raised |-> TRUE, value |-> e]

\* web_search without its try/except: the exception leaves the tool
web_search_propagates(outcome) ==
    IF outcome = "exception" THEN Raise("e")
    ELSE Return("search results")

web_search(outcome) ==
    IF outcome = "exception" THEN Return("Search error: e")
    ELSE Return("search results")

fetch_webpage(outcome) ==
    IF outcome = "exception" THEN Return("Fetch error: e")
    ELSE Return("page chunks")

summarize_findings(outcome) == Return("summary")

\* ToolNode: run the tool named by the last message's tool call
CallTool(name, outcome) ==
    CASE name = "web_search" -> web_search(outcome)
      [] name = "fetch_webpage" -> fetch_webpage(outcome)
      [] OTHER -> summarize_findings(outcome)

Last(s) == s[Len(s)]

\* langgraph.prebuilt.tools_condition with the mapping of _build_graph
tools_condition(messages) ==
    IF Len(Last(messages).tool_calls) > 0 THEN "tools" ELSE "synthesizer"

\* _should_continue_research with iteration > max_iterations
_should_continue_research_strict(st) ==
    IF IsNone(st.max_iterations) THEN Raise("TypeError")
    ELSE IF st.iteration > Val(st.max_iterations) THEN Return("synthesizer")
    ELSE Return("researcher")

\* iteration >= max_iterations; comparing an int with None is a TypeError
_should_continue_research(st) ==
    IF IsNone(st.max_iterations) THEN Raise("TypeError")
    ELSE IF st.iteration >= Val(st.max_iterations) THEN Return("synthesizer")
    ELSE Return("researcher")

NoState ==
    [messages |-> <<>>, research_query |-> 0, findings |-> <<>>,
     iteration |-> 0, max_iterations |-> None]

NoResponse == [status |-> 0, detail |-> "", result |-> <<>>]

\* one server-sent event: f"data: {text}\n\n"
Event(text) == "data: " \o text

----------------------------------------------------------------------------
(* ToolCallResult *)

\* values of result: Union[str, dict, None]
NoneResult == [kind |-> "none", value |-> ""]
StrResult(text) == [kind |-> "str", value |-> text]
DictResult(items) == [kind |-> "dict", value |-> items]

ResultValues ==
    {NoneResult}
    \cup {StrResult(t) : t \in {"", "search results", "Search error: e",
                                 "page chunks", "Fetch error: e", "summary"}}
    \cup {DictResult(i) : i \in {"{}", "{title: t}", "{url: u, text: t}"}}

\* keyword arguments of ToolCallResult(...)
ToolCallArguments ==
    {[tool_name |-> n, success |-> b, result |-> v] :
        n \in ToolNames, b \in BOOLEAN, v \in ResultValues}

\* pydantic 2 (requirements: pydantic==2.5.0), the version that exports the
\* name: field_validator(field, *fields, mode=..., check_fields=...); any
\* other keyword is a TypeError of the call
field_validator(keywords) ==
    IF keywords \subseteq {"mode", "check_fields"}
    THEN Return(IF "mode" \in keywords THEN "before" ELSE "after")
    ELSE Raise("TypeError")

\* the decorator as class ToolCallResult applies it
result_validator == field_validator({"pre"})

\* the validator function
allow_empty_result(v) == IF v.kind = "none" THEN StrResult("") ELSE v

\* execution of the module app.models.schemas up to class ToolCallResult
schemas_module ==
    IF result_validator.raised THEN result_validator ELSE Return("schemas")

\* ToolCallResult(tool_name=..., success=..., result=...)
ToolCallResult(arguments) ==
    IF schemas_module.raised
    THEN schemas_module
    ELSE Return([arguments EXCEPT !.result = allow_empty_result(@)])

NoToolCall ==
    [arguments |-> [tool_name |-> "web_search", success |-> TRUE, result |-> NoneResult],
     outcome |-> "none", object |-> <<>>]

----------------------------------------------------------------------------
(* Initial state *)

Init ==
    /\ research_agent = "None"
    /\ pc = [r \in Runs |-> "idle"]
    /\ request = [r \in Runs |-> NoRequest]
    /\ state = [r \in Runs |-> NoState]
    /\ trace = [r \in Runs |-> <<>>]
    /\ error = [r \in Runs |-> "none"]
    /\ invoked = [r \in Runs |-> FALSE]
    /\ response = [r \in Runs |-> NoResponse]
    /\ events = [r \in Runs |-> <<>>]
    /\ calls = [r \in Runs |-> <<>>]
    /\ tool_call = NoToolCall

----------------------------------------------------------------------------
(* Process startup *)

\* lifespan startup: construct the orchestrator singleton
lifespan ==
    /\ research_agent = "None"
    /\ research_agent' = "agent"
    /\ UNCHANGED <<pc, request, state, trace, error, invoked, response, events, calls, tool_call>>

----------------------------------------------------------------------------
(* HTTP layer: arrival, authentication and validation *)

\* a client sends a request
Arrive(r) ==
    /\ pc[r] = "idle"
    /\ \E q \in Requests : request' = [request EXCEPT ![r] = q]
    /\ pc' = [pc EXCEPT ![r] = "received"]
    /\ UNCHANGED <<research_agent, state, trace, error, invoked, response, events, calls, tool_call>>

\* os.getenv("API_KEY", "your-secret-key")
ExpectedKey == "your-secret-key"

verify_api_key(x_api_key) ==
    IF x_api_key # ExpectedKey THEN Raise(401) ELSE Return(x_api_key)

\* FastAPI resolves the parameters of the route: the required header
\* x_api_key = Header(...), the dependency verify_api_key, the body model.
\* The outcome is the status of the rejection, or 0 when the handler runs.
ResolveParameters(q) ==
    IF q.x_api_key = "missing" THEN 422
    ELSE IF verify_api_key(q.x_api_key).raised THEN verify_api_key(q.x_api_key).value
    ELSE IF ~ResearchRequest(q.body) THEN 422
    ELSE 0

RejectionDetail(status) ==
    IF status = 401 THEN "Invalid API key" ELSE "validation error"

Dispatch(r) ==
    /\ pc[r] = "received"
    /\ LET status == ResolveParameters(request[r]) IN
         IF status # 0
         THEN /\ response' = [response EXCEPT ![r] =
                     [status |-> status, detail |-> RejectionDetail(status),
                      result |-> <<>>]]
              /\ pc' = [pc EXCEPT ![r] = "responded"]
         ELSE /\ pc' = [pc EXCEPT ![r] = "handler"]
              /\ UNCHANGED response
    /\ UNCHANGED <<research_agent, request, state, trace, error, invoked, events, calls, tool_call>>

----------------------------------------------------------------------------
(* ResearchAssistant.research and the graph nodes *)

\* initial_state of ResearchAssistant.research
initial_state(qlen, max_iterations) ==
    [messages |-> <<HumanMessage("query")>>,
     research_query |-> qlen,
     findings |-> <<>>,
     iteration |-> 0,
     max_iterations |-> max_iterations]

\* research keeping the state of the run on the shared instance, where the
\* call of another request overwrites it
research_shared(r) ==
    /\ invoked' = [invoked EXCEPT ![r] = TRUE]
    /\ state' = [q \in Runs |->
          IF q = r \/ invoked[q]
          THEN initial_state(request[r].body.qlen, ParsedMaxIterations(request[r].body))
          ELSE state[q]]
    /\ pc' = [pc EXCEPT ![r] = "planner"]

\* research_agent.research(query=..., max_iterations=...) up to the entry of
\* the graph: __start__ -> planner
research(r) ==
    /\ invoked' = [invoked EXCEPT ![r] = TRUE]
    /\ state' = [state EXCEPT ![r] =
          initial_state(request[r].body.qlen, ParsedMaxIterations(request[r].body))]
    /\ pc' = [pc EXCEPT ![r] = "planner"]

\* an exception leaves graph.invoke
Abort(r, e) ==
    /\ error' = [error EXCEPT ![r] = e]
    /\ pc' = [pc EXCEPT ![r] = "raised"]

\* a planner that counts its pass twice
planner_update_twice(st, resp) ==
    [st EXCEPT !.messages = <<resp>>, !.iteration = st.iteration + 2]

\* state update of the planner node on the model's response; the keys of
\* ResearchState are declared without a reducer (messages: List), so the
\* value a node returns for a key replaces the value of the state
planner_update(st, resp) ==
    [st EXCEPT !.messages = <<resp>>, !.iteration = st.iteration + 1]

planner(r) ==
    /\ pc[r] = "planner"
    /\ Len(trace[r]) < MaxSteps
    /\ trace' = [trace EXCEPT ![r] = Append(@, "planner")]
    /\ \/ /\ Abort(r, "model error")
          /\ calls' = [calls EXCEPT ![r] = Append(@, "llm: raise")]
          /\ UNCHANGED state
       \/ \E resp \in LLMResponses :
            /\ calls' = [calls EXCEPT ![r] = Append(@, LLMOutcome(resp))]
            /\ state' = [state EXCEPT ![r] = planner_update(@, resp)]
            /\ pc' = [pc EXCEPT ![r] = "researcher"]
            /\ UNCHANGED error
    /\ UNCHANGED <<research_agent, request, invoked, response, events, tool_call>>

researcher_update(st, resp) == [st EXCEPT !.messages = <<resp>>]

researcher(r) ==
    /\ pc[r] = "researcher"
    /\ Len(trace[r]) < MaxSteps
    /\ trace' = [trace EXCEPT ![r] = Append(@, "researcher")]
    /\ \/ /\ Abort(r, "model error")
          /\ calls' = [calls EXCEPT ![r] = Append(@, "llm: raise")]
          /\ UNCHANGED state
       \/ \E resp \in LLMResponses :
            /\ calls' = [calls EXCEPT ![r] = Append(@, LLMOutcome(resp))]
            /\ state' = [state EXCEPT ![r] = researcher_update(@, resp)]
            /\ pc' = [pc EXCEPT ![r] = tools_condition(state'[r].messages)]
            /\ UNCHANGED error
    /\ UNCHANGED <<research_agent, request, invoked, response, events, tool_call>>

tools_update(st, content) == [st EXCEPT !.messages = <<ToolMessage(content)>>]

tools(r) ==
    /\ pc[r] = "tools"
    /\ Len(trace[r]) < MaxSteps
    /\ trace' = [trace EXCEPT ![r] = Append(@, "tools")]
    /\ \E outcome \in ToolOutcomes(Last(state[r].messages).tool_calls[1]) :
         LET call == CallTool(Last(state[r].messages).tool_calls[1], outcome)
             st == tools_update(state[r], call.value)
             route == _should_continue_research(st)
         IN /\ calls' = [calls EXCEPT ![r] = Append(@, "tool: " \o outcome)]
            /\ IF call.raised
               THEN /\ Abort(r, "tool error")
                    /\ UNCHANGED state
               ELSE /\ state' = [state EXCEPT ![r] = st]
                    /\ IF route.raised
                       THEN Abort(r, route.value)
                       ELSE /\ pc' = [pc EXCEPT ![r] = route.value]
                            /\ UNCHANGED error
    /\ UNCHANGED <<research_agent, request, invoked, response, events, tool_call>>

\* a synthesizer that returns the findings as it got them
synthesizer_update_no_finding(st, resp) ==
    [st EXCEPT !.messages = <<resp>>]

synthesizer_update(st, resp) ==
    [st EXCEPT !.messages = <<resp>>,
               !.findings = st.findings \o <<resp.content>>]

synthesizer(r) ==
    /\ pc[r] = "synthesizer"
    /\ Len(trace[r]) < MaxSteps
    /\ trace' = [trace EXCEPT ![r] = Append(@, "synthesizer")]
    /\ \/ /\ Abort(r, "model error")
          /\ calls' = [calls EXCEPT ![r] = Append(@, "llm: raise")]
          /\ UNCHANGED state
       \/ \E resp \in LLMResponses :
            /\ calls' = [calls EXCEPT ![r] = Append(@, LLMOutcome(resp))]
            /\ state' = [state EXCEPT ![r] = synthesizer_update(@, resp)]
            /\ pc' = [pc EXCEPT ![r] = "END"]
            /\ UNCHANGED error
    /\ UNCHANGED <<research_agent, request, invoked, response, events, tool_call>>

\* the dictionary returned by ResearchAssistant.research
research_result(st) ==
    [query |-> st.research_query,
     report |-> Last(st.messages).content,
     iterations |-> st.iteration,
     findings_count |-> Len(st.findings)]

----------------------------------------------------------------------------
(* POST /research *)

conduct_research(r) ==
    /\ pc[r] = "handler"
    /\ request[r].endpoint = "/research"
    /\ IF research_agent = "None"
       THEN /\ response' = [response EXCEPT ![r] =
                   [status |-> 503, detail |-> "Agent not initialized",
                    result |-> <<>>]]
            /\ pc' = [pc EXCEPT ![r] = "responded"]
            /\ UNCHANGED <<state, invoked>>
       ELSE /\ research(r)
            /\ UNCHANGED response
    /\ UNCHANGED <<research_agent, request, trace, error, events, calls, tool_call>>

\* return ResearchResponse(success=True, ...)
conduct_research_return(r) ==
    /\ pc[r] = "END"
    /\ request[r].endpoint = "/research"
    /\ response' = [response EXCEPT ![r] =
          [status |-> 200, detail |-> "", result |-> <<research_result(state[r])>>]]
    /\ pc' = [pc EXCEPT ![r] = "responded"]
    /\ UNCHANGED <<research_agent, request, state, trace, error, invoked, events, calls, tool_call>>

\* except Exception as e: raise HTTPException(500, f"Research failed: {e}")
conduct_research_except(r) ==
    /\ pc[r] = "raised"
    /\ request[r].endpoint = "/research"
    /\ response' = [response EXCEPT ![r] =
          [status |-> 500, detail |-> "Research failed: " \o error[r],
           result |-> <<>>]]
    /\ pc' = [pc EXCEPT ![r] = "responded"]
    /\ UNCHANGED <<research_agent, request, state, trace, error, invoked, events, calls, tool_call>>

----------------------------------------------------------------------------
(* POST /research/stream *)

\* the handler returns StreamingResponse(generate()) at once
conduct_research_streaming(r) ==
    /\ pc[r] = "handler"
    /\ request[r].endpoint = "/research/stream"
    /\ response' = [response EXCEPT ![r] =
          [status |-> 200, detail |-> "", result |-> <<>>]]
    /\ pc' = [pc EXCEPT ![r] = "generate"]
    /\ UNCHANGED <<research_agent, request, state, trace, error, invoked, events, calls, tool_call>>

\* generate(): the first event, then the call of research_agent.research;
\* on None the attribute access raises inside the try block
generate(r) ==
    /\ pc[r] = "generate"
    /\ events' = [events EXCEPT ![r] = Append(@, Event("Starting research for: query"))]
    /\ IF research_agent = "None"
       THEN /\ Abort(r, "AttributeError")
            /\ UNCHANGED <<state, invoked>>
       ELSE /\ research(r)
            /\ UNCHANGED error
    /\ UNCHANGED <<research_agent, request, trace, response, calls, tool_call>>

\* yield the report, then the sentinel
generate_return(r) ==
    /\ pc[r] = "END"
    /\ request[r].endpoint = "/research/stream"
    /\ events' = [events EXCEPT ![r] =
          @ \o <<Event(research_result(state[r]).report), Event("[DONE]")>>]
    /\ pc' = [pc EXCEPT ![r] = "responded"]
    /\ UNCHANGED <<research_agent, request, state, trace, error, invoked, response, calls, tool_call>>

\* except Exception as e: yield f"data: Error: {e}"
generate_except(r) ==
    /\ pc[r] = "raised"
    /\ request[r].endpoint = "/research/stream"
    /\ events' = [events EXCEPT ![r] = Append(@, Event("Error: " \o error[r]))]
    /\ pc' = [pc EXCEPT ![r] = "responded"]
    /\ UNCHANGED <<research_agent, request, state, trace, error, invoked, response, calls, tool_call>>

----------------------------------------------------------------------------
(* Specification *)

Step(r) ==
    \/ Arrive(r)
    \/ Dispatch(r)
    \/ conduct_research(r)
    \/ conduct_research_return(r)
    \/ conduct_research_except(r)
    \/ conduct_research_streaming(r)
    \/ generate(r)
    \/ generate_return(r)
    \/ generate_except(r)
    \/ planner(r)
    \/ researcher(r)
    \/ tools(r)
    \/ synthesizer(r)

Next ==
    \/ lifespan
    \/ \E r \in SeqRuns : Step(r)

Spec == Init /\ [][Next]_vars

----------------------------------------------------------------------------
(* Concurrent requests on the shared orchestrator *)

\* authenticated requests with bodies the schema accepts
ConcRequests ==
    {q \in Requests :
        /\ q.x_api_key = ExpectedKey
        /\ q.body.qlen \in {MinQueryLen, MaxQueryLen}
        /\ q.body.has_max
        /\ q.body.max_iterations = Some(MinIterations)}

ConcArrive(r) ==
    /\ pc[r] = "idle"
    /\ \E q \in ConcRequests : request' = [request EXCEPT ![r] = q]
    /\ pc' = [pc EXCEPT ![r] = "received"]
    /\ UNCHANGED <<research_agent, state, trace, error, invoked, response, events, calls, tool_call>>

\* a step of request r while other requests are in flight
ConcStep(r) ==
    \/ ConcArrive(r)
    \/ Dispatch(r)
    \/ conduct_research(r)
    \/ conduct_research_return(r)
    \/ conduct_research_except(r)
    \/ conduct_research_streaming(r)
    \/ generate(r)
    \/ generate_return(r)
    \/ generate_except(r)
    \/ (Len(trace[r]) < ConcSteps /\ planner(r))
    \/ (Len(trace[r]) < ConcSteps /\ researcher(r))
    \/ (Len(trace[r]) < ConcSteps /\ tools(r))
    \/ (Len(trace[r]) < ConcSteps /\ synthesizer(r))

ConcNext ==
    \/ lifespan
    \/ \E r \in Runs : ConcStep(r)

SpecConc == Init /\ [][ConcNext]_vars

----------------------------------------------------------------------------
(* Construction of tool results *)

\* the arguments of one construction, before it runs
InitSchemas ==
    /\ research_agent = "None"
    /\ pc = [r \in Runs |-> "idle"]
    /\ request = [r \in Runs |-> NoRequest]
    /\ state = [r \in Runs |-> NoState]
    /\ trace = [r \in Runs |-> <<>>]
    /\ error = [r \in Runs |-> "none"]
    /\ invoked = [r \in Runs |-> FALSE]
    /\ response = [r \in Runs |-> NoResponse]
    /\ events = [r \in Runs |-> <<>>]
    /\ calls = [r \in Runs |-> <<>>]
    /\ \E a \in ToolCallArguments :
         tool_call = [arguments |-> a, outcome |-> "pending", object |-> <<>>]

\* from app.models import schemas; schemas.ToolCallResult(**arguments)
Construct ==
    /\ tool_call.outcome = "pending"
    /\ LET made == ToolCallResult(tool_call.arguments) IN
         tool_call' =
            IF made.raised
            THEN [tool_call EXCEPT !.outcome = made.value]
            ELSE [tool_call EXCEPT !.outcome = "constructed",
                                   !.object = <<made.value>>]
    /\ UNCHANGED <<research_agent, pc, request, state, trace, error, invoked,
                   response, events, calls>>

NextSchemas == Construct

SpecSchemas == InitSchemas /\ [][NextSchemas]_vars

TypeOK ==
    /\ research_agent \in {"None", "agent"}
    /\ \A r \in Runs :
         /\ pc[r] \in {"idle", "received", "handler", "generate", "planner",
                       "researcher", "tools", "synthesizer", "END", "raised",
                       "responded"}
         /\ state[r].iteration \in 0..MaxSteps
         /\ Len(trace[r]) <= MaxSteps
         /\ invoked[r] \in BOOLEAN
         /\ response[r].status \in {0, 200, 401, 422, 500, 503}

----------------------------------------------------------------------------
(* Vocabulary of the properties *)

InSeq(x, s) == \E i \in 1..Len(s) : s[i] = x

IsPrefix(s, t) == Len(s) <= Len(t) /\ \A i \in 1..Len(s) : s[i] = t[i]

\* number of passes of the run of r through a node
Passes(r, node) == Cardinality({i \in 1..Len(trace[r]) : trace[r][i] = node})

\* the request passed authentication and validation of its body
Admitted(r) ==
    /\ pc[r] \notin {"idle", "received"}
    /\ ResolveParameters(request[r]) = 0

\* the body is within the bounds the specification gives: query length in
\* [5,1000], max_iterations omitted (default 3) or an integer in [1,10]
InBounds(b) ==
    /\ b.qlen >= MinQueryLen
    /\ b.qlen <= MaxQueryLen
    /\ \/ ~b.has_max
       \/ /\ ~IsNone(b.max_iterations)
          /\ Val(b.max_iterations) >= MinIterations
          /\ Val(b.max_iterations) <= MaxIterations

\* a run of the orchestrator that satisfies the precondition of research
ValidRun(r) == invoked[r] /\ InBounds(request[r].body)

\* max_iterations of a valid run
N(r) == Val(state[r].max_iterations)

\* the request is answered and its run, if any, is over
Responded(r) == pc[r] = "responded"

----------------------------------------------------------------------------
(* C1 *)

\* C1: a run started with a valid query and 1 <= max_iterations <= 10 reaches
\* DONE after at most max_iterations TOOLS passes, whatever the model answers.
\* Stated as its safety part: no valid run makes more than max_iterations
\* TOOLS passes.
C1_BoundedToolsPasses ==
    \A r \in Runs : ValidRun(r) => Passes(r, "tools") <= N(r)

----------------------------------------------------------------------------
(* C2 *)

\* iteration of a valid run is within its bound
C2_Bounded == \A r \in Runs : ValidRun(r) => state[r].iteration <= N(r)

\* one step of the iteration counter of request r
C2_Step(r) ==
    /\ (~invoked[r] /\ invoked'[r]) => state'[r].iteration = 0
    /\ (invoked[r] /\ trace'[r] = Append(trace[r], "planner") /\ pc'[r] # "raised")
          => state'[r].iteration = state[r].iteration + 1
    /\ (invoked[r] /\ state'[r].iteration # state[r].iteration)
          => /\ trace'[r] = Append(trace[r], "planner")
             /\ state'[r].iteration = state[r].iteration + 1

\* C2: in a run started with 1 <= max_iterations <= 10, iteration starts at 0,
\* is incremented by exactly one by every planner pass and by nothing else,
\* and never exceeds max_iterations.
C2_IterationCounter ==
    /\ []C2_Bounded
    /\ [][\A r \in Runs : (ValidRun(r) \/ ~invoked[r]) => C2_Step(r)]_vars

\* a valid run has finished its graph with iteration equal to max_iterations
C2_Witness ==
    \E r \in Runs :
        ValidRun(r) /\ pc[r] = "END" /\ state[r].iteration = N(r)
          /\ Passes(r, "planner") = 1

----------------------------------------------------------------------------
(* C3 *)

\* C3: for a run with max_iterations = N, a TOOLS pass is followed by
\* RESEARCH only while iteration < N and by SYNTHESIZE otherwise, and once
\* iteration has reached N the run never re-enters RESEARCH.
C3_NoReentry ==
    [][\A r \in Runs : ValidRun(r) =>
          /\ (pc[r] = "tools" /\ pc'[r] = "researcher")
                => state'[r].iteration < N(r)
          /\ (pc[r] = "tools" /\ pc'[r] \notin {"tools", "researcher"})
                => (pc'[r] = "synthesizer" /\ state'[r].iteration >= N(r))
          /\ (state[r].iteration >= N(r) /\ InSeq("researcher", trace[r])
                 /\ pc[r] # "researcher")
                => pc'[r] # "researcher"]_vars

\* a TOOLS pass of a run whose iteration has reached N handed over to
\* SYNTHESIZE
C3_Witness ==
    \E r \in Runs :
        /\ ValidRun(r) /\ pc[r] = "synthesizer"
        /\ Len(trace[r]) > 0 /\ Last(trace[r]) = "tools"
        /\ state[r].iteration = N(r)

----------------------------------------------------------------------------
(* C4 *)

\* C4: AgentInput, ResearchTaskRequest and ResearchRequest accept a request
\* body if and only if the query length is in [5,1000] and max_iterations is
\* in [1,10], and the orchestrator is invoked for no body outside those
\* bounds.
C4_ValidationIffInBounds ==
    \A r \in Runs : pc[r] # "idle" =>
        LET b == request[r].body IN
        /\ AgentInput(b) <=> InBounds(b)
        /\ ResearchTaskRequest(b) <=> InBounds(b)
        /\ ResearchRequest(b) <=> InBounds(b)
        /\ invoked[r] => InBounds(b)

----------------------------------------------------------------------------
(* C5 *)

\* C5: a request whose X-API-Key header is missing or differs from the
\* service key is answered with HTTP 401 and the orchestrator is never
\* invoked for it.
C5_Unauthorized ==
    \A r \in Runs :
        (pc[r] \notin {"idle", "received"} /\ request[r].x_api_key # ExpectedKey)
            => (response[r].status = 401 /\ ~invoked[r])

----------------------------------------------------------------------------
(* C6 *)

\* C6: if a model call raises during PLAN, RESEARCH or SYNTHESIZE, the run
\* does not reach DONE and the request, on either research endpoint, is
\* answered with HTTP 500 and the message 'Research failed: <cause>', with
\* no report.
C6_ModelFailureIs500 ==
    \A r \in Runs :
        (Responded(r) /\ InSeq("llm: raise", calls[r]))
            => /\ response[r].status = 500
               /\ response[r].detail = "Research failed: model error"
               /\ response[r].result = <<>>
               /\ ~InSeq(Event("[DONE]"), events[r])

----------------------------------------------------------------------------
(* C7 *)

\* the strings the tools return in place of an exception
ErrorStrings == {"Search error: e", "Fetch error: e"}

\* a TOOLS pass of r whose external search or fetch raised
C7_FailedToolsPass(r) ==
    /\ trace'[r] = Append(trace[r], "tools")
    /\ Last(calls'[r]) = "tool: exception"

\* the run of r went through without a model failure and was answered with
\* its report
C7_Completed(r) ==
    IF request[r].endpoint = "/research"
    THEN response[r].status = 200 /\ Len(response[r].result) = 1
    ELSE Len(events[r]) > 0 /\ Last(events[r]) = Event("[DONE]")

----------------------------------------------------------------------------
(* C8 *)

\* C8: a valid run whose model never requests a tool performs one PLAN pass,
\* one RESEARCH pass, no TOOLS pass and one SYNTHESIZE pass, in that order,
\* and returns iterations = 1 and findings_count = 1.
C8_NoToolRun ==
    \A r \in Runs :
        (ValidRun(r) /\ ~InSeq("llm: tool", calls[r]))
            => /\ IsPrefix(trace[r], <<"planner", "researcher", "synthesizer">>)
               /\ (pc[r] = "END" \/ (Responded(r) /\ error[r] = "none"))
                    => /\ trace[r] = <<"planner", "researcher", "synthesizer">>
                       /\ research_result(state[r]).iterations = 1
                       /\ research_result(state[r]).findings_count = 1
               /\ (Responded(r) /\ response[r].status = 200
                      /\ request[r].endpoint = "/research")
                    => /\ response[r].result[1].iterations = 1
                       /\ response[r].result[1].findings_count = 1

\* the scenario of the specification: max_iterations 3, no tool requested,
\* the report returned
C8_Witness ==
    \E r \in Runs :
        /\ ValidRun(r) /\ Responded(r)
        /\ N(r) = DefaultIterations
        /\ ~InSeq("llm: tool", calls[r])
        /\ request[r].endpoint = "/research"
        /\ response[r].status = 200
        /\ Len(response[r].result) = 1

----------------------------------------------------------------------------
(* C9 *)

\* C9: the event stream of an authenticated, valid request to
\* /research/stream ends with the sentinel 'data: [DONE]' on every outcome
\* of the run.
C9_StreamEndsWithDone ==
    \A r \in Runs :
        (Admitted(r) /\ invoked[r] /\ Responded(r)
           /\ request[r].endpoint = "/research/stream")
            => /\ Len(events[r]) > 0
               /\ Last(events[r]) = Event("[DONE]")

----------------------------------------------------------------------------
(* C10 *)

\* C10: an authenticated, valid request to either research endpoint that is
\* handled while the orchestrator singleton is not constructed is answered
\* with HTTP 503 and starts no run.
C10_NotReadyIs503 ==
    \A r \in Runs :
        (research_agent = "None" /\ Admitted(r) /\ Responded(r))
            => (response[r].status = 503 /\ ~invoked[r])

----------------------------------------------------------------------------
(* C11 *)

\* everything the model keeps for request q
Own(q) ==
    <<request[q], state[q], trace[q], error[q], invoked[q], response[q],
      events[q], calls[q]>>

\* planner passes of r that raised instead of returning an update
C11_FailedPlannerPasses(r) ==
    IF error[r] # "none" /\ Len(trace[r]) > 0 /\ Last(trace[r]) = "planner"
    THEN 1 ELSE 0

\* the state of the run of r is the one its own request and its own passes
\* produce
C11_OwnState(r) ==
    /\ state[r].research_query = request[r].body.qlen
    /\ state[r].max_iterations = ParsedMaxIterations(request[r].body)
    /\ state[r].iteration = Passes(r, "planner") - C11_FailedPlannerPasses(r)
    /\ (Responded(r) /\ request[r].endpoint = "/research" /\ response[r].status = 200)
          => /\ response[r].result = <<research_result(state[r])>>
             /\ response[r].result[1].query = request[r].body.qlen
             /\ response[r].result[1].findings_count = Passes(r, "synthesizer")

\* C11: under any interleaving of concurrent requests on the shared
\* orchestrator, a step of one request changes nothing of another request
\* (its ResearchState: messages, findings, iteration, max_iterations; its
\* response) and nothing of the orchestrator singleton, so the state and the
\* result of a run are those of its own request and passes.
C11_Isolation ==
    /\ [](\A r \in Runs : invoked[r] => C11_OwnState(r))
    /\ [][\A q \in Runs : pc'[q] = pc[q] => Own(q)' = Own(q)]_vars
    /\ [][research_agent' # research_agent => pc' = pc]_vars

\* two runs with different queries are inside the graph at the same time
C11_Witness ==
    /\ \A r \in Runs :
         /\ invoked[r]
         /\ pc[r] \in {"researcher", "tools", "synthesizer"}
    /\ request[1].body.qlen # request[2].body.qlen
    /\ trace[1] # trace[2]

----------------------------------------------------------------------------
(* C12 *)

\* C12: constructing a ToolCallResult with result = None yields result = "",
\* and constructing it with a string or a mapping leaves the value
\* unchanged, so that the stored result is never None.
C12_NoneBecomesEmpty ==
    tool_call.outcome \notin {"none", "pending"} =>
        /\ tool_call.outcome = "constructed"
        /\ Len(tool_call.object) = 1
        /\ tool_call.object[1].result.kind # "none"
        /\ tool_call.object[1].result =
              IF tool_call.arguments.result = NoneResult
              THEN StrResult("")
              ELSE tool_call.arguments.result

----------------------------------------------------------------------------
(* C13 *)

\* C13: the conversation of a run is append-only: it is seeded with the
\* query as its first user turn, and over every PLAN, RESEARCH, TOOLS and
\* SYNTHESIZE step the previous messages are a prefix of the new messages.
C13_AppendOnly ==
    /\ [](\A r \in Runs : invoked[r] =>
            /\ Len(state[r].messages) > 0
            /\ state[r].messages[1] = HumanMessage("query"))
    /\ [][\A r \in Runs : invoked[r] =>
            IsPrefix(state[r].messages, state'[r].messages)]_vars

----------------------------------------------------------------------------
(* C14 *)

\* C14: every call of research made by the HTTP layer passes an integer
\* max_iterations with 1 <= max_iterations <= 10, for every body the request
\* schema accepts, a body without max_iterations and a body with
\* max_iterations null included.
C14_RunPrecondition ==
    \A r \in Runs : invoked[r] =>
        /\ ~IsNone(state[r].max_iterations)
        /\ Val(state[r].max_iterations) >= MinIterations
        /\ Val(state[r].max_iterations) <= MaxIterations

====
